---- MODULE Spec2Model ----
(***************************************************************************)
(* Process lifecycle and dynamic preview routing of server.js: the         *)
(* runningProjects registry, the express route table, the /run and /stop  *)
(* handlers with their await points, the child process observers,         *)
(* the keepalive route, the inactivity sweep, the port probe and the        *)
(* SIGTERM / SIGINT shutdown loop.                                         *)
(***************************************************************************)
EXTENDS Integers, Sequences, FiniteSets, TLC

\* ------------------------------------------------------------------ bounds
MaxReqs == 2          \* HTTP requests to /run and /stop over a run
MaxChildren == 2      \* child processes spawned over a run
MaxSweeps == 3        \* firings of the inactivity timer

\* ------------------------------------------------------- program constants
StartPort == 8080         \* findAvailablePort's default startPort
StaleThreshold == 60000   \* sweep: now - lastPing > 60000
ReaperInterval == 30000   \* setInterval(..., 30000)

Names == {"demo", "shop"}
Reqs == 1..MaxReqs
Undef == 0                \* flutterProcess.pid of a child that failed to spawn
ErrTexts == {"Error: port in use"}   \* stderr chunks
NoError == ""             \* processInfo.error never assigned

VARIABLES
  projects,         \* names with a directory under PROJECTS_DIR
  runningProjects,  \* the Map: a function whose domain is the registered names
  stack,            \* app._router.stack, in registration order
  children,         \* every ChildProcess object created by spawn, by creation order
  req,              \* the /run and /stop handler invocations and their positions
  now,              \* Date.now() at the last firing of the inactivity timer
  exit              \* the server process: the signal it got, the names its
                    \* shutdown loop called stopProject on, whether it has exited

vars == <<projects, runningProjects, stack, children, req, now, exit>>

\* ------------------------------------------------------------ route table
Layer(kind, name, id) == [kind |-> kind, name |-> name, id |-> id]

\* app.use / app.post / app.get calls executed when the module is loaded
StaticStack ==
  << Layer("middleware", "cors", 0), Layer("middleware", "json", 0),
     Layer("middleware", "urlencoded", 0),
     Layer("route", "/create", 0), Layer("route", "/update", 0),
     Layer("route", "/open", 0), Layer("route", "/run", 0),
     Layer("route", "/status", 0), Layer("route", "/stop", 0),
     Layer("route", "/build", 0), Layer("route", "/download", 0),
     Layer("route", "/delete", 0), Layer("route", "/projects", 0),
     Layer("route", "/health", 0),
     Layer("errorHandler", "", 0),
     Layer("notFound", "", 0) >>

\* the layer app.use(`/preview/${projectName}`, projectRouter) pushes
RouterLayer(name, id) == Layer("router", name, id)

\* a request under /preview/<name>/<sub>
PreviewReq(name, sub) == [path |-> "/preview", name |-> name, sub |-> sub]

\* does this layer end the request (respond without calling next)?
Handles(layer, rq) ==
  CASE layer.kind = "middleware" -> FALSE
    [] layer.kind = "errorHandler" -> FALSE
    [] layer.kind = "route" -> layer.name = rq.path
    [] layer.kind = "notFound" -> TRUE
    [] layer.kind = "router" -> rq.path = "/preview" /\ rq.name = layer.name
    [] OTHER -> FALSE

NoLayer == Layer("none", "", 0)

\* express walks the stack in order; the first layer that handles it answers
Dispatch(st, rq) ==
  LET idx == {i \in 1..Len(st) : Handles(st[i], rq)}
  IN  IF idx = {} THEN NoLayer
      ELSE st[CHOOSE i \in idx : \A j \in idx : i <= j]

\* ------------------------------------------------------------------ Map
MapSet(m, k, v) == [x \in (DOMAIN m) \cup {k} |-> IF x = k THEN v ELSE m[x]]
MapDelete(m, k) == [x \in (DOMAIN m) \ {k} |-> m[x]]
EmptyMap == [x \in {} |-> 0]

\* -------------------------------------------------------------- processes
\* process.kill(pid, 'SIGTERM') returns normally iff pid is a number naming a
\* process that still exists; otherwise it throws (TypeError / ESRCH)
KillSucceeds(ch, pid) ==
  /\ pid # Undef
  /\ pid \in 1..Len(ch)
  /\ ch[pid].state = "alive"

Signal(ch, pid) == [ch EXCEPT ![pid].signalled = TRUE]

\* ports a child process is listening on (a bind on one of them fails)
BusyPorts ==
  {children[c].port : c \in {d \in 1..Len(children) :
                               children[d].state = "alive" /\ children[d].listening}}

\* a spawn that failed emits 'error' from the tick queue, before any other
\* callback runs: nothing else happens while one is pending
Quiet == \A c \in 1..Len(children) : children[c].state # "failed"

\* no callback of the server runs after process.exit
Up == ~exit.exited

\* the server process before any termination signal
Signals == {"SIGTERM", "SIGINT"}
Running == [exited |-> FALSE, signal |-> "", stopped |-> {}]

Idle == [pc |-> "idle", kind |-> "none", name |-> "", code |-> 0, ret |-> FALSE,
         port |-> 0, child |-> 0, after |-> {}, at |-> 0]

Init ==
  /\ projects \in {Names, {"demo"}}
  /\ runningProjects = EmptyMap
  /\ stack = StaticStack
  /\ children = << >>
  /\ req = [r \in Reqs |-> Idle]
  /\ now = 0
  /\ exit = Running

\* the mutable part of the program a handler works on
Cur == [rp |-> runningProjects, stack |-> stack, ch |-> children]

\* stopProject without the signal: the entry and the routes go, the child stays
stopProject_NoSignal(S, projectName) ==
  IF projectName \in DOMAIN S.rp
  THEN [rp |-> MapDelete(S.rp, projectName),
        stack |-> SelectSeq(S.stack,
                    LAMBDA layer : layer # RouterLayer(projectName, S.rp[projectName].router)),
        ch |-> S.ch, ret |-> TRUE]
  ELSE [rp |-> S.rp, stack |-> S.stack, ch |-> S.ch, ret |-> FALSE]

\* stopProject that reports success for a name that is not registered
stopProject_Eager(S, projectName) ==
  IF projectName \in DOMAIN S.rp
  THEN IF KillSucceeds(S.ch, S.rp[projectName].pid)
       THEN [rp |-> MapDelete(S.rp, projectName),
             stack |-> SelectSeq(S.stack,
                         LAMBDA layer : layer # RouterLayer(projectName, S.rp[projectName].router)),
             ch |-> Signal(S.ch, S.rp[projectName].pid),
             ret |-> TRUE]
       ELSE [rp |-> S.rp, stack |-> S.stack, ch |-> S.ch, ret |-> FALSE]
  ELSE [rp |-> S.rp, stack |-> S.stack, ch |-> S.ch, ret |-> TRUE]

\* stopProject whose filter drops every mounted router, not only its own
stopProject_UnmountAll(S, projectName) ==
  IF projectName \in DOMAIN S.rp
  THEN IF KillSucceeds(S.ch, S.rp[projectName].pid)
       THEN [rp |-> MapDelete(S.rp, projectName),
             stack |-> SelectSeq(S.stack, LAMBDA layer : layer.kind # "router"),
             ch |-> Signal(S.ch, S.rp[projectName].pid),
             ret |-> TRUE]
       ELSE [rp |-> S.rp, stack |-> S.stack, ch |-> S.ch, ret |-> FALSE]
  ELSE [rp |-> S.rp, stack |-> S.stack, ch |-> S.ch, ret |-> FALSE]

\* stopProject (lines 157-172); ret is the value its promise resolves to
stopProject(S, projectName) ==
  IF projectName \in DOMAIN S.rp
  THEN LET processInfo == S.rp[projectName] IN
       IF KillSucceeds(S.ch, processInfo.pid)
       THEN [rp |-> MapDelete(S.rp, projectName),
             stack |-> SelectSeq(S.stack,
                         LAMBDA layer : layer # RouterLayer(projectName, processInfo.router)),
             ch |-> Signal(S.ch, processInfo.pid),
             ret |-> TRUE]
       ELSE \* process.kill threw: the catch block logs and returns false
            [rp |-> S.rp, stack |-> S.stack, ch |-> S.ch, ret |-> FALSE]
  ELSE [rp |-> S.rp, stack |-> S.stack, ch |-> S.ch, ret |-> FALSE]

Apply(S) ==
  /\ runningProjects' = S.rp
  /\ stack' = S.stack
  /\ children' = S.ch

Respond(r, code) == [req EXCEPT ![r].pc = "done", ![r].code = code]

\* requests are numbered in the order they arrive
NextReq(r) == req[r].pc = "idle" /\ \A q \in Reqs : q < r => req[q].pc # "idle"

RunsInFlight ==
  Cardinality({q \in Reqs : req[q].kind = "run" /\ req[q].pc \notin {"idle", "done"}})

\* the successful earlier /run requests for the same name that had responded
\* when this one arrived
RanBefore(n) ==
  {q \in Reqs : req[q].pc = "done" /\ req[q].kind = "run" /\ req[q].name = n
                 /\ req[q].code = 200}

Arrive(r, kind, n, pc) ==
  [req EXCEPT ![r] = [Idle EXCEPT !.pc = pc, !.kind = kind, !.name = n,
                                   !.after = IF kind = "run" THEN RanBefore(n) ELSE {}]]

\* ------------------------------------------------------------- POST /run
\* lines 299-308: the body names a project (no 400); await projectExists; 404
\* when the directory is absent, else await the toolchain check. The project
\* check reads the directories only, which no step of the model changes: its
\* outcome is the one at arrival
RunBegin(r, n) ==
  /\ Up
  /\ Quiet
  /\ NextReq(r)
  /\ n # ""
  /\ Len(children) + RunsInFlight < MaxChildren
  /\ req' = IF n \in projects
            THEN Arrive(r, "run", n, "awaitFlutter")
            ELSE [Arrive(r, "run", n, "done") EXCEPT ![r].code = 404]
  /\ UNCHANGED <<projects, runningProjects, stack, children, now, exit>>

\* a probe that answers its start port without looking
findAvailablePort_NoProbe(startPort) == startPort

\* findAvailablePort (lines 143-155): bind startPort; on 'error' recurse with
\* startPort + 1. listen() binds when it is called, the 'listening' and 'error'
\* callbacks run from the tick queue, and the listener's socket is closed in
\* the 'listening' callback: the probes of one call run without another
\* handler in between, only the promise resolves later (the close callback)
RECURSIVE findAvailablePort(_)
findAvailablePort(startPort) ==
  IF startPort \in BusyPorts THEN findAvailablePort(startPort + 1) ELSE startPort

\* a handler that stops the old Instance before it checks the toolchain
RunAfterFlutterCheck_StopFirst(r) ==
  /\ Up
  /\ Quiet
  /\ req[r].pc = "awaitFlutter"
  /\ Apply(stopProject(Cur, req[r].name))
  /\ \E installed \in BOOLEAN :
       req' = IF installed
              THEN [req EXCEPT ![r].pc = "awaitPort", ![r].port = findAvailablePort(StartPort)]
              ELSE Respond(r, 500)
  /\ UNCHANGED <<projects, now, exit>>

\* lines 308-317: 500 when flutter --version failed; else stopProject runs, its
\* settled promise resumes the handler from the microtask queue (no other
\* callback in between) and findAvailablePort() starts probing
RunAfterFlutterCheck(r) ==
  /\ Up
  /\ Quiet
  /\ req[r].pc = "awaitFlutter"
  /\ \E installed \in BOOLEAN :
       IF installed
       THEN LET S == stopProject(Cur, req[r].name) IN
            /\ Apply(S)
            /\ req' = [req EXCEPT ![r].pc = "awaitPort",
                                  ![r].port = findAvailablePort(StartPort)]
       ELSE /\ req' = Respond(r, 500)
            /\ UNCHANGED <<runningProjects, stack, children>>
  /\ UNCHANGED <<projects, now, exit>>

\* registration that already reports the Instance as running
NewInfo_Running(pid, port, router) ==
  [pid |-> pid, port |-> port, router |-> router, lastPing |-> now, startTime |-> now,
   status |-> "running", error |-> NoError]

\* the object runningProjects.set stores (lines 369-376)
NewInfo(pid, port, router) ==
  [pid |-> pid, port |-> port, router |-> router, lastPing |-> now, startTime |-> now,
   status |-> "starting", error |-> NoError]

\* the ChildProcess spawn returns (lines 363-367); pid is undefined when the
\* executable or the working directory is missing
NewChild(name, pid, port) ==
  [name |-> name, pid |-> pid, port |-> port,
   state |-> IF pid = Undef THEN "failed" ELSE "alive",
   signalled |-> FALSE, listening |-> FALSE]

\* lines 149, 317-428: the probe listener's close callback resolves the
\* promise and the rest of the handler runs without another await: mount,
\* spawn, register, respond, attach the observers
RunAfterPort(r) ==
  /\ Up
  /\ Quiet
  /\ req[r].pc = "awaitPort"
  /\ Len(children) < MaxChildren
  /\ \E spawned \in BOOLEAN :
       LET k == Len(children) + 1
           pid == IF spawned THEN k ELSE Undef
           name == req[r].name
           port == req[r].port
       IN  /\ stack' = Append(stack, RouterLayer(name, k))
           /\ children' = Append(children, NewChild(name, pid, port))
           /\ runningProjects' = MapSet(runningProjects, name, NewInfo(pid, port, k))
           /\ req' = [req EXCEPT ![r].pc = "done", ![r].code = 200, ![r].child = k]
  /\ UNCHANGED <<projects, now, exit>>

\* ------------------------------------------------------------ POST /stop
\* lines 469-493: the body names a project (no 400); 404 when the directory is
\* absent; else stopProject runs to completion and the response reports its
\* result. The await of projectExists before it touches no state
Stop(r, n) ==
  /\ Up
  /\ Quiet
  /\ NextReq(r)
  /\ n # ""
  /\ IF n \in projects
     THEN LET S == stopProject(Cur, n) IN
          /\ Apply(S)
          /\ req' = [Arrive(r, "stop", n, "done") EXCEPT ![r].code = 200, ![r].ret = S.ret]
     ELSE /\ req' = [Arrive(r, "stop", n, "done") EXCEPT ![r].code = 404]
          /\ UNCHANGED <<runningProjects, stack, children>>
  /\ UNCHANGED <<projects, now, exit>>

\* ------------------------------------------------- child process observers
Child(c) == children[c]
Children == 1..Len(children)

\* the child binds --web-port; a bind on a taken port does not succeed
ChildListen(c) ==
  /\ Up
  /\ Quiet
  /\ Child(c).state = "alive"
  /\ ~Child(c).listening
  /\ Child(c).port \notin BusyPorts
  /\ children' = [children EXCEPT ![c].listening = TRUE]
  /\ UNCHANGED <<projects, runningProjects, stack, req, now, exit>>

\* does the chunk contain one of the four readiness markers (lines 390-393)?
Chunks == {"Running on http://localhost", "Compiling lib/web_entrypoint.dart"}
IsReady(output) == output = "Running on http://localhost"

\* stdout 'data' (lines 387-400); the closure names the Instance by projectName
OnStdout(rp, projectName, output) ==
  IF IsReady(output) /\ projectName \in DOMAIN rp
  THEN MapSet(rp, projectName, [rp[projectName] EXCEPT !.status = "running"])
  ELSE rp

\* a stderr handler that tears the Instance down instead of keeping it
OnStderr_Drop(rp, projectName, errorOutput) == MapDelete(rp, projectName)

\* stderr 'data' (lines 402-411), also the first branch of 'error' (420-424)
OnStderr(rp, projectName, errorOutput) ==
  IF projectName \in DOMAIN rp
  THEN MapSet(rp, projectName,
              [rp[projectName] EXCEPT !.status = "error", !.error = errorOutput])
  ELSE rp

\* a pipe delivers data while the process runs and until 'close'
CanEmit(c) == Child(c).state \in {"alive", "exited"} /\ Child(c).pid # Undef

ChildStdout(c, output) ==
  /\ Up
  /\ Quiet
  /\ CanEmit(c)
  /\ runningProjects' = OnStdout(runningProjects, Child(c).name, output)
  /\ UNCHANGED <<projects, stack, children, req, now, exit>>

ChildStderr(c, errorOutput) ==
  /\ Up
  /\ Quiet
  /\ CanEmit(c)
  /\ runningProjects' = OnStderr(runningProjects, Child(c).name, errorOutput)
  /\ UNCHANGED <<projects, stack, children, req, now, exit>>

\* the OS process ends (any exit code, signalled or not) and is reaped
ChildExit(c) ==
  /\ Up
  /\ Quiet
  /\ Child(c).state = "alive"
  /\ children' = [children EXCEPT ![c].state = "exited", ![c].listening = FALSE]
  /\ UNCHANGED <<projects, runningProjects, stack, req, now, exit>>

SpawnError == "spawn flutter ENOENT"

\* 'error' (lines 418-428): emitted on the tick after a failed spawn
OnError(S, projectName) ==
  IF projectName \in DOMAIN S.rp
  THEN [rp |-> OnStderr(S.rp, projectName, SpawnError),
        stack |-> S.stack, ch |-> S.ch, ret |-> FALSE]
  ELSE stopProject(S, projectName)

ChildError(c) ==
  /\ Up
  /\ Child(c).state = "failed"
  /\ LET S == OnError(Cur, Child(c).name)
     IN  /\ runningProjects' = S.rp
         /\ stack' = S.stack
         /\ children' = [S.ch EXCEPT ![c].state = "exited"]
  /\ UNCHANGED <<projects, req, now, exit>>

\* 'close' (lines 413-416): after the exit (or the failed spawn) and the end
\* of the pipes
OnClose(S, projectName) == stopProject(S, projectName)

ChildClose(c) ==
  /\ Up
  /\ Quiet
  /\ Child(c).state = "exited"
  /\ LET S == OnClose(Cur, Child(c).name)
     IN  /\ runningProjects' = S.rp
         /\ stack' = S.stack
         /\ children' = [S.ch EXCEPT ![c].state = "closed"]
  /\ UNCHANGED <<projects, req, now, exit>>

\* ------------------------------------------------------------ the sweep
Stale(info, t) == t - info.lastPing > StaleThreshold

\* the for-of loop of lines 649-654 over the entries still to visit
RECURSIVE SweepLoop(_, _, _)
SweepLoop(S, todo, t) ==
  IF todo = {} THEN S
  ELSE LET projectName == CHOOSE n \in todo : TRUE
           S2 == IF projectName \in DOMAIN S.rp /\ Stale(S.rp[projectName], t)
                 THEN stopProject(S, projectName)
                 ELSE S
       IN  SweepLoop([rp |-> S2.rp, stack |-> S2.stack, ch |-> S2.ch],
                     todo \ {projectName}, t)

\* the timer of lines 647-655 fires ReaperInterval after its last firing; a
\* firing that finds the Map empty does nothing and is left out
Sweep ==
  /\ Up
  /\ Quiet
  /\ now < MaxSweeps * ReaperInterval
  /\ DOMAIN runningProjects # {}
  /\ now' = now + ReaperInterval
  /\ Apply(SweepLoop(Cur, DOMAIN runningProjects, now'))
  /\ UNCHANGED <<projects, req, exit>>

\* a loop that gives up at the first stopProject that returns false
RECURSIVE ShutdownLoop_StopOnFailure(_, _)
ShutdownLoop_StopOnFailure(S, todo) ==
  IF todo = {} THEN S
  ELSE LET projectName == CHOOSE n \in todo : TRUE
           S2 == stopProject(S, projectName)
       IN  ShutdownLoop_StopOnFailure(
             [rp |-> S2.rp, stack |-> S2.stack, ch |-> S2.ch,
              stopped |-> S.stopped \cup {projectName}],
             IF S2.ret THEN (todo \cap DOMAIN S2.rp) \ {projectName} ELSE {})

\* ------------------------------------------------------------- shutdown
\* the for-of loop of lines 659-661 / 667-669 over the Map's entries: each
\* await is on the settled promise of stopProject, which resumes the loop from
\* the microtask queue, so no other callback runs before process.exit. The
\* Map's iterator skips no entry when the current one is deleted; stopProject
\* touches only the entry it is called on, so the order of the visits does not
\* change the outcome. stopped collects the names stopProject was called on
RECURSIVE ShutdownLoop(_, _)
ShutdownLoop(S, todo) ==
  IF todo = {} THEN S
  ELSE LET projectName == CHOOSE n \in todo : TRUE
           S2 == stopProject(S, projectName)
       IN  ShutdownLoop([rp |-> S2.rp, stack |-> S2.stack, ch |-> S2.ch,
                         stopped |-> S.stopped \cup {projectName}],
                        (todo \cap DOMAIN S2.rp) \ {projectName})

\* process.on('SIGTERM') / process.on('SIGINT') (lines 657-672)
Shutdown(sig) ==
  /\ Up
  /\ Quiet
  /\ LET S == ShutdownLoop([rp |-> runningProjects, stack |-> stack, ch |-> children,
                            stopped |-> {}], DOMAIN runningProjects)
     IN  /\ Apply(S)
         /\ exit' = [exited |-> TRUE, signal |-> sig, stopped |-> S.stopped]
  /\ UNCHANGED <<projects, req, now>>

\* ------------------------------------------------------- GET /status/:name
\* lines 438-460: the status field of the response (404 as "notFound")
StatusOf(n) ==
  IF n \notin projects THEN "notFound"
  ELSE IF n \notin DOMAIN runningProjects THEN "stopped"
  ELSE runningProjects[n].status

\* ------------------------------------------------------ /preview/<name>/...
\* pingHandler (lines 340-347) of the router mounted for projectName
PingCode(rp, projectName) == IF projectName \in DOMAIN rp THEN 200 ELSE 404

PingEffect(rp, projectName, t) ==
  IF projectName \in DOMAIN rp
  THEN MapSet(rp, projectName, [rp[projectName] EXCEPT !.lastPing = t])
  ELSE rp

\* the layer that answers POST /preview/<name>/ping
PingLayer(n) == Dispatch(stack, PreviewReq(n, "ping"))

\* POST /preview/<name>/ping sent through the route table; ret tells whether
\* a pingHandler was reached, at is the time of the request and child the
\* router of the Instance registered under the name at that time
Ping(r, n) ==
  /\ Up
  /\ Quiet
  /\ NextReq(r)
  /\ LET layer == PingLayer(n)
         reached == layer.kind = "router"
     IN  /\ runningProjects' = IF reached THEN PingEffect(runningProjects, layer.name, now)
                               ELSE runningProjects
         /\ req' = [req EXCEPT ![r] = [Idle EXCEPT !.pc = "done", !.kind = "ping",
                      !.name = n, !.ret = reached, !.at = now,
                      !.child = IF n \in DOMAIN runningProjects
                                THEN runningProjects[n].router ELSE 0,
                      !.code = IF reached THEN PingCode(runningProjects, layer.name)
                               ELSE 404]]
  /\ UNCHANGED <<projects, stack, children, now, exit>>

\* the port a request under /preview/<name>/app is forwarded to, 0 when the
\* catch-all answers 404 instead
ProxyTarget(n) ==
  LET layer == Dispatch(stack, PreviewReq(n, "app"))
  IN  IF layer.kind = "router" THEN children[layer.id].port ELSE 0

Next ==
  \/ \E r \in Reqs, n \in Names : RunBegin(r, n)
  \/ \E r \in Reqs : RunAfterFlutterCheck(r)
  \/ \E r \in Reqs : RunAfterPort(r)
  \/ \E r \in Reqs, n \in Names : Stop(r, n)
  \/ \E r \in Reqs, n \in Names : Ping(r, n)
  \/ \E c \in Children : ChildListen(c)
  \/ \E c \in Children, output \in Chunks : ChildStdout(c, output)
  \/ \E c \in Children, errorOutput \in ErrTexts : ChildStderr(c, errorOutput)
  \/ \E c \in Children : ChildExit(c)
  \/ \E c \in Children : ChildError(c)
  \/ \E c \in Children : ChildClose(c)
  \/ Sweep
  \/ \E sig \in Signals : Shutdown(sig)

Spec == Init /\ [][Next]_vars
\* ===================================================================== claims
Has(rp, n) == n \in DOMAIN rp
Mounted(st, n, k) == \E i \in 1..Len(st) : st[i] = RouterLayer(n, k)
MountedFor(st, n) == {i \in 1..Len(st) : st[i].kind = "router" /\ st[i].name = n}

\* this step is the /stop handler r calling stopProject and responding
StopStep(r) ==
  req[r].pc = "idle" /\ req'[r].pc = "done" /\ req'[r].kind = "stop" /\ req'[r].code = 200
\* this step is the /run handler r registering its child and responding
RunReturns(r) == req[r].pc = "awaitPort" /\ req'[r].pc = "done"

\* C1: stopProject on a registered name always leaves the name absent from the
\* Registry and its route set unmounted, whether or not the signal succeeded.
C1_StopAlwaysRemoves ==
  [][\A r \in Reqs :
       (StopStep(r) /\ Has(runningProjects, req'[r].name))
       => /\ ~Has(runningProjects', req'[r].name)
          /\ ~Mounted(stack', req'[r].name, runningProjects[req'[r].name].router)]_vars

\* C2: two /run requests for one name in sequence (the second arrives after the
\* first responded, nothing else touches the name)
Sequential(r1, r2) ==
  /\ r1 \in req[r2].after
  /\ \A q \in Reqs \ {r1, r2} : req'[q].pc = "idle" \/ req'[q].name # req[r2].name

SecondRegistered(r2) ==
  LET n == req[r2].name
      c2 == req'[r2].child
  IN  /\ Has(runningProjects', n)
      /\ runningProjects'[n].pid = children'[c2].pid
      /\ runningProjects'[n].port = children'[c2].port
      /\ runningProjects'[n].router = c2

\* C2 as stated: when the second returns, the first child has been sent a
\* termination signal and the Registry holds the second child's pid and port.
C2_FirstSignalled ==
  [][\A r1, r2 \in Reqs :
       (RunReturns(r2) /\ Sequential(r1, r2))
       => /\ children'[req[r1].child].signalled
          /\ SecondRegistered(r2)]_vars

\* C2 amended: when the second returns, the first child has been sent a
\* termination signal unless it had already exited or never spawned, and the
\* Registry holds the second child's pid and port.
C2_FirstSignalledOrGone ==
  [][\A r1, r2 \in Reqs :
       (RunReturns(r2) /\ Sequential(r1, r2))
       => /\ \/ children'[req[r1].child].signalled
             \/ children'[req[r1].child].state # "alive"
          /\ SecondRegistered(r2)]_vars

\* two sequential runs have returned, the first child was alive and got the signal
C2_Witness ==
  \E r1, r2 \in Reqs :
    /\ req[r2].pc = "done" /\ req[r2].kind = "run" /\ req[r2].code = 200
    /\ r1 \in req[r2].after
    /\ children[req[r1].child].signalled
    /\ children[req[r1].child].pid # Undef
    /\ Has(runningProjects, req[r2].name)
    /\ runningProjects[req[r2].name].router = req[r2].child

\* children of name n that were spawned and never sent a termination signal
AliveUnsignalled(ch, n) ==
  {c \in 1..Len(ch) : ch[c].name = n /\ ch[c].state = "alive" /\ ~ch[c].signalled}

\* C3: when the later of two /run requests for one name returns (no child of the
\* name having ended on its own), exactly one child of the name is alive and
\* unsignalled, and it is the one the Registry records.
C3_OneChildAlive ==
  [][\A r1, r2 \in Reqs :
       ( /\ r1 # r2
         /\ RunReturns(r2)
         /\ req[r1].kind = "run" /\ req[r1].pc = "done" /\ req[r1].code = 200
         /\ req[r1].name = req[r2].name
         /\ \A q \in Reqs \ {r1, r2} : req'[q].pc = "idle" \/ req'[q].name # req[r2].name
         /\ \A c \in 1..Len(children') :
              children'[c].name = req[r2].name
              => children'[c].state = "alive" )
       => /\ Has(runningProjects', req[r2].name)
          /\ AliveUnsignalled(children', req[r2].name)
               = {runningProjects'[req[r2].name].pid}]_vars

\* this step is the 'close' event of child c
CloseStep(c) ==
  /\ c \in 1..Len(children)
  /\ children[c].state = "exited"
  /\ children'[c].state = "closed"

\* C4: after the child of a registered Instance exits, the stop path run by the
\* 'close' event leaves the Instance removed and unmounted, and a status query
\* reports stopped.
C4_ExitRemoves ==
  [][\A c \in 1..Len(children) :
       ( /\ CloseStep(c)
         /\ Has(runningProjects, children[c].name)
         /\ runningProjects[children[c].name].pid = c )
       => /\ ~Has(runningProjects', children[c].name)
          /\ ~Mounted(stack', children[c].name, c)
          /\ (children[c].name \in projects => StatusOf(children[c].name)' = "stopped")]_vars

\* this step is a firing of the inactivity timer
SweepStep == now' # now

\* C5: every Instance whose lastPing is more than 60 s before a sweep is, after
\* the sweep, absent from the Registry and unmounted, and its status is stopped.
C5_SweepRemovesStale ==
  [][\A n \in Names :
       (SweepStep /\ Has(runningProjects, n) /\ now' - runningProjects[n].lastPing > 60000)
       => /\ ~Has(runningProjects', n)
          /\ MountedFor(stack', n) = {}
          /\ (n \in projects => StatusOf(n)' = "stopped")]_vars

\* this step is request r, a POST /preview/<name>/ping
PingStep(r) == req[r].pc = "idle" /\ req'[r].pc = "done" /\ req'[r].kind = "ping"

\* C6: a keepalive for a registered, mounted name reaches that Instance's
\* handler, sets lastPing to the current time and returns 200; for a name that
\* is not registered it returns 404 and changes no Registry state.
C6_PingReachesHandler ==
  [][\A r \in Reqs :
       PingStep(r) =>
         LET n == req'[r].name IN
         IF Has(runningProjects, n) /\ Mounted(stack, n, runningProjects[n].router)
         THEN /\ req'[r].code = 200
              /\ Has(runningProjects', n)
              /\ runningProjects'[n].lastPing = now
         ELSE /\ Has(runningProjects, n) \/ req'[r].code = 404
              /\ runningProjects' = runningProjects]_vars

\* C7: at the moment /run returns its success response the Registry has the
\* entry of that name with status starting, the allocated port and the spawned
\* child's pid.
C7_RegisteredStarting ==
  [][\A r \in Reqs :
       RunReturns(r) =>
         LET n == req[r].name
             c == req'[r].child
         IN  /\ req'[r].code = 200
             /\ Has(runningProjects', n)
             /\ runningProjects'[n].status = "starting"
             /\ runningProjects'[n].error = NoError
             /\ runningProjects'[n].port = req[r].port
             /\ runningProjects'[n].pid = children'[c].pid
             /\ children'[c].name = n /\ children'[c].port = req[r].port
             /\ c = Len(children) + 1]_vars

\* a /run has returned and its Instance is still as registered
C7_Witness ==
  \E r \in Reqs :
    /\ req[r].pc = "done" /\ req[r].kind = "run" /\ req[r].code = 200
    /\ Has(runningProjects, req[r].name)
    /\ runningProjects[req[r].name].router = req[r].child
    /\ runningProjects[req[r].name].pid = req[r].child
    /\ runningProjects[req[r].name].status = "starting"

\* C8: an Instance's status goes from starting to running exactly when a stdout
\* chunk of its own child contains a readiness marker; nothing else (no timer,
\* no other action) makes that change.
C8_RunningOnlyByOwnMarker ==
  [][\A n \in Names :
       ( /\ Has(runningProjects, n) /\ Has(runningProjects', n)
         /\ runningProjects[n].router = runningProjects'[n].router
         /\ runningProjects[n].status = "starting" )
       => /\ runningProjects'[n].status = "running"
             => \E output \in Chunks :
                  /\ IsReady(output)
                  /\ CanEmit(runningProjects[n].router)
                  /\ ChildStdout(runningProjects[n].router, output)
          /\ \A output \in Chunks :
               ( /\ IsReady(output)
                 /\ CanEmit(runningProjects[n].router)
                 /\ ChildStdout(runningProjects[n].router, output) )
               => runningProjects'[n].status = "running"]_vars

\* C9: a stderr chunk from the child of a registered Instance sets status to
\* error and error to the chunk text, and leaves the Instance registered with
\* pid, port, lastPing, startTime and routes as they were; no child is
\* signalled and nothing is unmounted.
C9_StderrFrame ==
  [][\A c \in 1..Len(children), errorOutput \in ErrTexts :
       ( /\ ChildStderr(c, errorOutput)
         /\ Has(runningProjects, children[c].name)
         /\ runningProjects[children[c].name].router = c )
       => LET n == children[c].name IN
          /\ DOMAIN runningProjects' = DOMAIN runningProjects
          /\ runningProjects'[n].status = "error"
          /\ runningProjects'[n].error = errorOutput
          /\ runningProjects'[n].pid = runningProjects[n].pid
          /\ runningProjects'[n].port = runningProjects[n].port
          /\ runningProjects'[n].router = runningProjects[n].router
          /\ runningProjects'[n].lastPing = runningProjects[n].lastPing
          /\ runningProjects'[n].startTime = runningProjects[n].startTime
          /\ \A m \in DOMAIN runningProjects \ {n} : runningProjects'[m] = runningProjects[m]
          /\ stack' = stack
          /\ children' = children]_vars

\* an Instance in error after its own child wrote to stderr: still registered,
\* still mounted, the child alive and unsignalled
C9_Witness ==
  \E n \in DOMAIN runningProjects :
    /\ runningProjects[n].status = "error"
    /\ runningProjects[n].error \in ErrTexts
    /\ runningProjects[n].pid # Undef
    /\ children[runningProjects[n].pid].state = "alive"
    /\ ~children[runningProjects[n].pid].signalled
    /\ Mounted(stack, n, runningProjects[n].router)

\* this step is the 'error' event of child c
ErrorStep(c) ==
  /\ c \in 1..Len(children)
  /\ children[c].state = "failed"
  /\ children'[c].state = "exited"

\* C10: a failed spawn leaves the Instance registered with status error and the
\* failure detail, and a subsequent stop of that name removes the Instance and
\* unmounts its routes.
C10_SpawnFailureStoppable ==
  [][/\ \A c \in 1..Len(children) :
          (ErrorStep(c) /\ Has(runningProjects, children[c].name)
             /\ runningProjects[children[c].name].router = c)
          => /\ Has(runningProjects', children[c].name)
             /\ runningProjects'[children[c].name].status = "error"
             /\ runningProjects'[children[c].name].error = SpawnError
     /\ \A r \in Reqs :
          ( /\ StopStep(r)
            /\ Has(runningProjects, req'[r].name)
            /\ runningProjects[req'[r].name].pid = Undef )
          => /\ ~Has(runningProjects', req'[r].name)
             /\ ~Mounted(stack', req'[r].name, runningProjects[req'[r].name].router)]_vars

\* this step is the shutdown handler running to process.exit
ShutdownStep == ~exit.exited /\ exit'.exited

\* C11: on SIGTERM or SIGINT, stopProject has been invoked for every Instance
\* that was in the Registry when the signal arrived before process.exit is
\* called, even when stopping an earlier Instance in the loop failed.
C11_ShutdownStopsAll ==
  [][ShutdownStep
       => /\ DOMAIN runningProjects \subseteq exit'.stopped
          /\ \A n \in DOMAIN runningProjects :
               KillSucceeds(children, runningProjects[n].pid)
               => children'[runningProjects[n].pid].signalled]_vars

\* the server has exited after a loop over two Instances in which one stop
\* failed (its entry is still there) and the other succeeded
C11_Witness ==
  /\ exit.exited
  /\ \E n, m \in exit.stopped :
       /\ n # m
       /\ Has(runningProjects, n)
       /\ ~Has(runningProjects, m)
       /\ \E c \in 1..Len(children) :
            children[c].name = m /\ children[c].signalled /\ children[c].state = "alive"

\* C12: when the server has exited through the shutdown path, every child it
\* ever spawned has either already exited or been sent a termination signal.
C12_NoOrphan ==
  exit.exited
    => \A c \in 1..Len(children) :
         children[c].state = "alive" => children[c].signalled

\* this step is request r returning the error code
FailsWith(r, kind, code) ==
  /\ req[r].pc # "done"
  /\ req'[r].pc = "done" /\ req'[r].kind = kind /\ req'[r].code = code

\* C13: a POST /run that fails with 404 (directory absent) or 500 (toolchain
\* check failed) leaves the Registry, the route table and all child processes
\* unchanged, an Instance of that name included; a POST /stop for an unknown
\* project returns 404 without anything being stopped.
C13_FailuresMutateNothing ==
  [][\A r \in Reqs :
       ( \/ FailsWith(r, "run", 404)
         \/ FailsWith(r, "run", 500)
         \/ FailsWith(r, "stop", 404) )
       => /\ runningProjects' = runningProjects
          /\ stack' = stack
          /\ children' = children
          /\ req'[r].name \notin projects <=> req'[r].code = 404]_vars

\* a /run has failed on the toolchain check and the Instance of that name that
\* was running before is still registered, mounted, alive and unsignalled
C13_Witness ==
  \E r \in Reqs :
    /\ req[r].pc = "done" /\ req[r].kind = "run" /\ req[r].code = 500
    /\ Has(runningProjects, req[r].name)
    /\ LET info == runningProjects[req[r].name]
       IN  /\ info.pid # Undef
           /\ children[info.pid].state = "alive"
           /\ ~children[info.pid].signalled
           /\ Mounted(stack, req[r].name, info.router)

\* C14: in every reachable state no two Instances in the Registry have the
\* same port.
C14_PortsDistinct ==
  \A n, m \in DOMAIN runningProjects :
    n # m => runningProjects[n].port # runningProjects[m].port

\* C15: in every reachable state a name has an entry in the Registry if and
\* only if a route set for that name is mounted in the route table.
C15_RegisteredIffMounted ==
  \A n \in Names : Has(runningProjects, n) <=> MountedFor(stack, n) # {}

\* this step is the /run handler r calling stopProject before it probes a port
RunStops(r) == req[r].pc = "awaitFlutter" /\ req'[r].pc = "awaitPort"

\* C16: stopProject on a name with no Registry entry returns false and changes
\* nothing: no process is signalled, the Registry and the route table are as
\* they were; on a registered name whose signal succeeds it returns true.
C16_StopUnregisteredNoOp ==
  [][\A r \in Reqs :
       /\ StopStep(r) =>
            LET n == req'[r].name IN
            /\ ~Has(runningProjects, n)
                 => /\ req'[r].ret = FALSE
                    /\ runningProjects' = runningProjects
                    /\ stack' = stack
                    /\ children' = children
            /\ (Has(runningProjects, n) /\ KillSucceeds(children, runningProjects[n].pid))
                 => /\ req'[r].ret = TRUE
                    /\ children'[runningProjects[n].pid].signalled
       /\ (RunStops(r) /\ ~Has(runningProjects, req[r].name))
            => /\ runningProjects' = runningProjects
               /\ stack' = stack
               /\ children' = children]_vars

\* a /stop of a name that never ran has answered stopped: false while another
\* Instance stays registered with its child alive and unsignalled
C16_Witness ==
  \E r \in Reqs :
    /\ req[r].pc = "done" /\ req[r].kind = "stop" /\ req[r].code = 200
    /\ req[r].ret = FALSE
    /\ \A c \in 1..Len(children) : children[c].name # req[r].name
    /\ \E m \in DOMAIN runningProjects :
         /\ runningProjects[m].pid # Undef
         /\ children[runningProjects[m].pid].state = "alive"
         /\ ~children[runningProjects[m].pid].signalled

\* the keepalive requests sent for the Instance info of name n up to time t,
\* none more than 60 s after the one before it (or after the start) and the
\* last one at most 60 s before t
PolledUntil(n, info, t) ==
  LET pings == {r \in Reqs : /\ req[r].kind = "ping" /\ req[r].pc = "done"
                             /\ req[r].name = n /\ req[r].child = info.router}
      times == {info.startTime} \cup {req[r].at : r \in pings}
  IN  /\ pings # {}
      /\ \A a \in times : a = info.startTime
                            \/ \E b \in times : b < a /\ a - b <= StaleThreshold
      /\ \E a \in times : t - a <= StaleThreshold /\ a # info.startTime

\* C17: the sweep stops an Instance only if now - lastPing exceeds 60 s at the
\* time of the sweep, and an Instance whose client keeps polling the keepalive
\* endpoint at intervals of at most 60 s is never stopped by the sweep.
C17_PolledNeverReaped ==
  [][SweepStep =>
       \A n \in DOMAIN runningProjects :
         ~Has(runningProjects', n)
         => /\ now' - runningProjects[n].lastPing > 60000
            /\ ~PolledUntil(n, runningProjects[n], now')]_vars

LayersOf(st) == {st[i] : i \in 1..Len(st)}

\* this step takes a layer out of the route table
UnmountStep == \E i \in 1..Len(stack) : stack[i] \notin LayersOf(stack')

\* C18: unmounting in stopProject removes from the route table exactly the route
\* set referenced by the stopped name's Registry entry: the route sets and the
\* Registry entries of every other name and all statically registered routes
\* are unchanged.
C18_UnmountExact ==
  [][UnmountStep =>
       /\ \A i \in 1..Len(stack) :
            stack[i] \notin LayersOf(stack')
            => \E n \in DOMAIN runningProjects :
                 /\ stack[i] = RouterLayer(n, runningProjects[n].router)
                 /\ ~Has(runningProjects', n)
                 /\ KillSucceeds(children, runningProjects[n].pid)
       /\ stack' = SelectSeq(stack, LAMBDA layer : layer \in LayersOf(stack'))
       /\ SubSeq(stack', 1, Len(StaticStack)) = StaticStack
       /\ \A m \in DOMAIN runningProjects :
            \/ /\ ~Has(runningProjects', m)
               /\ RouterLayer(m, runningProjects[m].router) \notin LayersOf(stack')
            \/ /\ Has(runningProjects', m)
               /\ runningProjects'[m] = runningProjects[m]
               /\ \A i \in MountedFor(stack, m) : stack[i] \in LayersOf(stack')]_vars

\* the sweep has stopped and unmounted the older Instance n while the younger
\* Instance m, registered before that sweep, is still registered and mounted
\* with its child unsignalled
C18_Witness ==
  /\ ~exit.exited
  /\ \E n, m \in Names :
       /\ n # m
       /\ ~Has(runningProjects, n)
       /\ MountedFor(stack, n) = {}
       /\ \E c \in 1..Len(children) :
            children[c].name = n /\ children[c].signalled
       /\ Has(runningProjects, m)
       /\ runningProjects[m].startTime < now
       /\ Mounted(stack, m, runningProjects[m].router)
       /\ runningProjects[m].pid # Undef
       /\ ~children[runningProjects[m].pid].signalled

C20_CloseOnlyOwnInstance ==
  [][\A c \in 1..Len(children) :
       ( /\ CloseStep(c)
         /\ Has(runningProjects, children[c].name)
         /\ runningProjects[children[c].name].router # c )
       => LET n == children[c].name
              newer == runningProjects[n].router
          IN  /\ Has(runningProjects', n)
              /\ runningProjects'[n] = runningProjects[n]
              /\ children'[newer] = children[newer]
              /\ stack' = stack]_vars

\* this step is a stdout, stderr or 'error' event of child c
EventOf(c) ==
  /\ c \in 1..Len(children)
  /\ \/ \E output \in Chunks : ChildStdout(c, output)
     \/ \E errorOutput \in ErrTexts : ChildStderr(c, errorOutput)
     \/ ChildError(c)

\* C21: the status and error fields of an Instance are changed only by the
\* stdout, stderr and error events of the child the Instance itself owns;
\* output of an earlier child of the same name never changes them.
C21_StatusOnlyByOwnChild ==
  [][\A n \in Names :
       ( /\ Has(runningProjects, n) /\ Has(runningProjects', n)
         /\ runningProjects'[n].router = runningProjects[n].router
         /\ \/ runningProjects'[n].status # runningProjects[n].status
            \/ runningProjects'[n].error # runningProjects[n].error )
       => EventOf(runningProjects[n].router)]_vars

\* the router that answers under /preview/<name> once a request gets as far as
\* the mounted routers: the first one mounted for the name
FirstRouter(st, n) ==
  st[CHOOSE i \in MountedFor(st, n) : \A j \in MountedFor(st, n) : i <= j]

\* C22: in every reachable state at most one route set is mounted under
\* /preview/<name> for any name, and it is the one stored in that name's
\* Registry entry, so traffic under /preview/<name>/app goes to the port the
\* Registry records and never to the port of an earlier child.
C22_OneRouteSetPerName ==
  \A n \in Names :
    /\ Cardinality(MountedFor(stack, n)) <= 1
    /\ MountedFor(stack, n) # {}
         => /\ Has(runningProjects, n)
            /\ FirstRouter(stack, n) = RouterLayer(n, runningProjects[n].router)
            /\ children[FirstRouter(stack, n).id].port = runningProjects[n].port

\* the status changes the claim allows for one Registry entry
Transitions ==
  {<<"starting", "running">>, <<"starting", "error">>, <<"running", "error">>}

\* C23: once an Instance's status is error it never becomes running again for
\* the lifetime of that Registry entry, whenever status is running the error
\* field is unset, and the only status changes are starting->running,
\* starting->error and running->error.
C23_StatusTransitions ==
  [][\A n \in Names :
       /\ Has(runningProjects', n)
            => (runningProjects'[n].status = "running"
                  => runningProjects'[n].error = NoError)
       /\ ( /\ Has(runningProjects, n) /\ Has(runningProjects', n)
            /\ runningProjects'[n].router = runningProjects[n].router
            /\ runningProjects'[n].status # runningProjects[n].status )
          => <<runningProjects[n].status, runningProjects'[n].status>> \in Transitions]_vars
====
